---- MODULE Spec2Model ----
(***************************************************************************)
(* Model of src/analyze_diff.py: the file classifier (is_test_file,        *)
(* is_source_code, is_readme, is_license, classify_file), the diff invoker *)
(* (git_diff_single), the commit walk of analyze_repo and the aggregation  *)
(* of build_and_save.                                                      *)
(*                                                                         *)
(* Strings are sequences of one-character strings, so that lower(),        *)
(* split("/"), Path(..).name, Path(..).suffix and the regular expressions  *)
(* are computed character by character.  Python's None is the value None   *)
(* below, which is no string.                                              *)
(***************************************************************************)
EXTENDS Integers, Sequences, FiniteSets, TLC

VARIABLES
    \* build_and_save: its arguments and locals
    repo_urls,        \* the repositories given, each with the history its checkout holds
    max_commits,
    include_merges,
    url_i,            \* position of the for loop over repo_urls (line 145)
    all_dfs,          \* list of the data frames returned by analyze_repo
    full,             \* pd.concat(all_dfs)
    stats,            \* the summary table
    exc,              \* the exception build_and_save raised, or None
    \* analyze_repo: its locals
    rows,
    seen,
    commits,          \* what the traverse_commits() generator has still to yield
    commit,           \* loop variable of line 112
    parent_sha,
    files,            \* what the loop over commit.modified_files has still to visit
    \* history variables (not program state): what the walk did
    walked,           \* hashes of the commits that passed line 116, in order
    calls,            \* the git_diff_single invocations of the current analyze_repo
    \* classify_file called on its own
    old_path,
    new_path,
    ftype,
    pc

vars == <<repo_urls, max_commits, include_merges, url_i, all_dfs, full, stats, exc,
          rows, seen, commits, commit, parent_sha, files, walked, calls,
          old_path, new_path, ftype, pc>>

(***************************************************************************)
(* Strings                                                                 *)
(***************************************************************************)
None == <<"None">>

\* Python truthiness of an Optional[str]: None and "" are false.
Truthy(s) == s # None /\ s # <<>>

\* a or b
Or(a, b) == IF Truthy(a) THEN a ELSE b

UpperCase == <<"A","B","C","D","E","F","G","H","I","J","K","L","M",
               "N","O","P","Q","R","S","T","U","V","W","X","Y","Z">>
LowerCase == <<"a","b","c","d","e","f","g","h","i","j","k","l","m",
               "n","o","p","q","r","s","t","u","v","w","x","y","z">>
Digits == {"0","1","2","3","4","5","6","7","8","9"}

IsUpper(c) == \E i \in DOMAIN UpperCase : UpperCase[i] = c
IsLetter(c) == IsUpper(c) \/ \E i \in DOMAIN LowerCase : LowerCase[i] = c

\* str.lower(), one character
LowerChar(c) ==
    IF IsUpper(c) THEN LowerCase[CHOOSE i \in DOMAIN UpperCase : UpperCase[i] = c] ELSE c

\* str.lower()
Lower(s) == [i \in DOMAIN s |-> LowerChar(s[i])]

\* s.startswith(prefix)
StartsWith(s, prefix) ==
    Len(s) >= Len(prefix) /\ SubSeq(s, 1, Len(prefix)) = prefix

\* prefix occurs in s at position i (1-based)
OccursAt(s, prefix, i) ==
    i >= 1 /\ i + Len(prefix) - 1 <= Len(s) /\ SubSeq(s, i, i + Len(prefix) - 1) = prefix

\* s.split("/")
RECURSIVE SplitFrom(_, _, _)
SplitFrom(s, i, cur) ==
    IF i > Len(s) THEN <<cur>>
    ELSE IF s[i] = "/" THEN <<cur>> \o SplitFrom(s, i + 1, <<>>)
    ELSE SplitFrom(s, i + 1, Append(cur, s[i]))

Split(s) == SplitFrom(s, 1, <<>>)

\* the regular expression class \w
IsWordChar(c) == IsLetter(c) \/ c \in Digits \/ c = "_"

\* the regular expression assertion \b between s[j-1] and s[j]
WordBoundary(s, j) ==
    LET before == j - 1 >= 1 /\ j - 1 <= Len(s) /\ IsWordChar(s[j - 1])
        after  == j >= 1 /\ j <= Len(s) /\ IsWordChar(s[j])
    IN  before # after

\* the regular expression prefix (^|/) matching just before position i
SegmentStart(s, i) == i = 1 \/ (i > 1 /\ s[i - 1] = "/")

\* the regular expression assertion $ at position j: the end of the string, or
\* just before a newline that ends the string
AtEnd(s, j) == j = Len(s) + 1 \/ (j = Len(s) /\ s[j] = "\n")

\* pathlib: the parts of a relative POSIX path (empty and "." segments dropped)
RECURSIVE Parts(_)
Parts(segs) ==
    IF segs = <<>> THEN <<>>
    ELSE IF Head(segs) = <<>> \/ Head(segs) = <<".">> THEN Parts(Tail(segs))
    ELSE <<Head(segs)>> \o Parts(Tail(segs))

\* Path(path).name
PathName(path) ==
    LET parts == Parts(Split(path))
    IN  IF parts = <<>> THEN <<>> ELSE parts[Len(parts)]

\* name.rfind(".") as a 1-based position, 0 when there is none
LastDot(name) ==
    IF \E i \in DOMAIN name : name[i] = "."
    THEN CHOOSE i \in DOMAIN name : name[i] = "." /\ \A j \in DOMAIN name : name[j] = "." => j <= i
    ELSE 0

\* Path(path).suffix
PathSuffix(path) ==
    LET name == PathName(path)
        i == LastDot(name)
    IN  IF 1 < i /\ i < Len(name) THEN SubSeq(name, i, Len(name)) ELSE <<>>

\* the characters str.strip() removes (ASCII)
Whitespace == {" ", "\t", "\n", "\r", "\f"}

\* str.lstrip()
RECURSIVE LStrip(_)
LStrip(s) == IF s # <<>> /\ Head(s) \in Whitespace THEN LStrip(Tail(s)) ELSE s

\* str.rstrip()
RECURSIVE RStrip(_)
RStrip(s) ==
    IF s # <<>> /\ s[Len(s)] \in Whitespace THEN RStrip(SubSeq(s, 1, Len(s) - 1)) ELSE s

\* str.strip()
Strip(s) == RStrip(LStrip(s))

\* s.replace(old, new) for one-character old and new
Replace(s, old, new) == [i \in DOMAIN s |-> IF s[i] = old THEN new ELSE s[i]]

(***************************************************************************)
(* File Classifier                                                         *)
(***************************************************************************)
s_test == <<"t","e","s","t">>
s_tests == <<"t","e","s","t","s">>
s_test_ == <<"t","e","s","t","_">>
s_conftest_py == <<"c","o","n","f","t","e","s","t",".","p","y">>
s_readme == <<"r","e","a","d","m","e">>
s_license == <<"l","i","c","e","n","s","e">>
s_licence == <<"l","i","c","e","n","c","e">>

\* re.search(r"(^|/)(tests?|test_)\b", p)
SearchTestSegment(p) ==
    \E i \in 1..Len(p) :
        /\ SegmentStart(p, i)
        /\ \/ OccursAt(p, s_tests, i) /\ WordBoundary(p, i + 5)
           \/ OccursAt(p, s_test, i) /\ WordBoundary(p, i + 4)
           \/ OccursAt(p, s_test_, i) /\ WordBoundary(p, i + 5)

\* re.search(r"(^|/)conftest\.py$", p)
SearchConftest(p) ==
    \E i \in 1..Len(p) :
        /\ SegmentStart(p, i)
        /\ OccursAt(p, s_conftest_py, i)
        /\ AtEnd(p, i + 11)

is_test_file(path) ==
    IF ~Truthy(path) THEN FALSE
    ELSE LET p == Lower(path)
             segs == Split(p)
         IN  \/ \E k \in DOMAIN segs : segs[k] = s_test
             \/ SearchTestSegment(p)
             \/ SearchConftest(p)

SOURCE_EXTS == {
    <<".","c">>, <<".","h">>, <<".","c","p","p">>, <<".","c","c">>, <<".","c","x","x">>,
    <<".","h","p","p">>,
    <<".","j","a","v","a">>, <<".","p","y">>, <<".","r","b">>, <<".","g","o">>,
    <<".","r","s">>, <<".","p","h","p">>,
    <<".","c","s">>, <<".","k","t">>, <<".","m">>, <<".","m","m">>,
    <<".","s","w","i","f","t">>,
    <<".","j","s">>, <<".","j","s","x">>, <<".","t","s">>, <<".","t","s","x">>,
    <<".","s","c","a","l","a">>, <<".","p","l">>, <<".","r">>, <<".","j","l">>,
    <<".","l","u","a">>,
    <<".","s","h">>, <<".","b","a","s","h">>, <<".","z","s","h">>, <<".","p","s","1">> }

is_source_code(path) ==
    IF ~Truthy(path) THEN FALSE
    ELSE Lower(PathSuffix(path)) \in SOURCE_EXTS

is_readme(path) ==
    Truthy(path) /\ StartsWith(Lower(PathName(path)), s_readme)

is_license(path) ==
    IF ~Truthy(path) THEN FALSE
    ELSE LET name == Lower(PathName(path))
         IN  StartsWith(name, s_license) \/ StartsWith(name, s_licence)

\* line 85: p = (new_path or old_path or "").lower()
ClassifiedPath(old, new) == Lower(Or(Or(new, old), <<>>))

\* mutant: the test heuristic tried before the readme and license names
classify_file_TestFirst(old, new) ==
    LET p == ClassifiedPath(old, new)
    IN  IF is_test_file(p) THEN "test"
        ELSE IF is_readme(p) THEN "readme"
        ELSE IF is_license(p) THEN "license"
        ELSE IF is_source_code(p) THEN "source"
        ELSE "other"

classify_file(old, new) ==
    LET p == ClassifiedPath(old, new)
    IN  IF is_readme(p) THEN "readme"
        ELSE IF is_license(p) THEN "license"
        ELSE IF is_test_file(p) THEN "test"
        ELSE IF is_source_code(p) THEN "source"
        ELSE "other"

(***************************************************************************)
(* The repositories: what the checkout and the external tools answer       *)
(*                                                                         *)
(* A history is the sequence of a repository's commits in chronological    *)
(* order, oldest first, as listed from the checked-out HEAD.  A commit is  *)
(* [hash, parents, msg, changes]: changes is the list of files the commit  *)
(* touches relative to its first parent (or to the empty tree), each       *)
(* [old_path, new_path, git], where git[a] is the completed process        *)
(* (returncode, stdout, stderr) that "git diff --diff-algorithm=a" gives   *)
(* for that file.                                                          *)
(***************************************************************************)
EMPTY_TREE == "4b825dc642cb6eb9a060e54bf8d69288fbee4904"

Hash(i) == "c" \o ToString(i)

\* Repository(path, order=..., only_no_merge=...).traverse_commits(): PyDriller
\* lists the commits with git rev-list, oldest first by default (--reverse),
\* newest first when order="reverse", and without the commits of more than
\* one parent when only_no_merge is set (--no-merges).
RECURSIVE Reverse(_)
Reverse(s) == IF s = <<>> THEN <<>> ELSE Append(Reverse(Tail(s)), Head(s))

RECURSIVE NoMerges(_)
NoMerges(s) ==
    IF s = <<>> THEN <<>>
    ELSE IF Len(Head(s).parents) > 1 THEN NoMerges(Tail(s))
    ELSE <<Head(s)>> \o NoMerges(Tail(s))

traverse_commits(history, order, only_no_merge) ==
    LET ordered == IF order = "reverse" THEN Reverse(history) ELSE history
    IN  IF only_no_merge THEN NoMerges(ordered) ELSE ordered

\* mutant: the walk in PyDriller's default order
WalkOf_DefaultOrder(history, merges) == traverse_commits(history, "", ~merges)

\* line 112-113: the commits analyze_repo iterates over
WalkOf(history, merges) == traverse_commits(history, "reverse", ~merges)

\* commit.modified_files: PyDriller diffs a commit of one parent against that
\* parent and a root commit against the empty tree, and returns the empty list
\* for a commit of more than one parent.
modified_files(c) == IF Len(c.parents) > 1 THEN <<>> ELSE c.changes

(***************************************************************************)
(* Diff Invoker and Discrepancy Comparator                                 *)
(***************************************************************************)
\* mutant: the path set without the "if p" filter
PathsOf_Unfiltered(m) == {m.old_path, m.new_path}

\* line 119: list({p for p in [m.old_path, m.new_path] if p})
PathsOf(m) == {p \in {m.old_path, m.new_path} : Truthy(p)}

\* mutant: standard output returned whatever the exit status
git_diff_single_StdoutOnly(m, parent, commit_sha, paths, algorithm) ==
    m.git[algorithm].stdout

\* lines 96-106; m stands for the repository's answer to the command
git_diff_single(m, parent, commit_sha, paths, algorithm) ==
    LET cp == m.git[algorithm]
    IN  IF cp.returncode = 0 THEN cp.stdout ELSE cp.stderr

\* line 124
Discrepancy(diff_myers, diff_hist) == IF diff_myers = diff_hist THEN "No" ELSE "Yes"

\* mutant: no substitution of the empty tree for a root commit
ParentSha_EmptyForRoot(c) == IF c.parents # <<>> THEN c.parents[1] ELSE ""

\* line 117
ParentSha(c) == IF c.parents # <<>> THEN c.parents[1] ELSE EMPTY_TREE

\* lines 122-137: the row appended for one modified file
RowOf(name, c, parent, m) ==
    LET paths == PathsOf(m)
        diff_myers == git_diff_single(m, parent, c.hash, paths, "myers")
        diff_hist  == git_diff_single(m, parent, c.hash, paths, "histogram")
    IN  [repo |-> name,
         old_file_path |-> Or(m.old_path, <<>>),
         new_file_path |-> Or(m.new_path, <<>>),
         commit_sha |-> c.hash,
         parent_commit_sha |-> parent,
         commit_message |-> Replace(Strip(c.msg), "\n", " "),
         file_type |-> classify_file(m.old_path, m.new_path),
         diff_myers |-> diff_myers,
         diff_hist |-> diff_hist,
         Discrepancy |-> Discrepancy(diff_myers, diff_hist)]

CallOf(c, parent, m, algorithm) ==
    [parent |-> parent, commit |-> c.hash, paths |-> PathsOf(m), algorithm |-> algorithm]

(***************************************************************************)
(* Aggregator: the pandas operations of build_and_save                     *)
(***************************************************************************)
RowColumns == {"repo", "old_file_path", "new_file_path", "commit_sha",
               "parent_commit_sha", "commit_message", "file_type", "diff_myers", "diff_hist", "Discrepancy"}

\* pd.DataFrame(rows): the columns are the keys of the rows, none for no row
DataFrame(rs) == [columns |-> IF rs = <<>> THEN {} ELSE RowColumns, rows |-> rs]

RECURSIVE ConcatRows(_)
ConcatRows(dfs) == IF dfs = <<>> THEN <<>> ELSE Head(dfs).rows \o ConcatRows(Tail(dfs))

\* pd.concat(all_dfs, ignore_index=True), for a non-empty list
Concat(dfs) ==
    [columns |-> UNION {dfs[i].columns : i \in DOMAIN dfs}, rows |-> ConcatRows(dfs)]

\* mutant: the group size counted by file type alone
GroupSize_IgnoringVerdict(rs, cat, verdict) ==
    Cardinality({i \in DOMAIN rs : rs[i].file_type = cat})

\* lines 152-155: groupby(...).size() counts the rows of each (file_type,
\* Discrepancy) pair that occurs; pivot makes the file types that occur the
\* index and the verdicts that occur the columns; fillna(0) fills the rest.
GroupSize(rs, cat, verdict) ==
    Cardinality({i \in DOMAIN rs : rs[i].file_type = cat /\ rs[i].Discrepancy = verdict})

Stats(df) ==
    LET index == {df.rows[i].file_type : i \in DOMAIN df.rows}
        cols  == {df.rows[i].Discrepancy : i \in DOMAIN df.rows}
    IN  [index |-> index, columns |-> cols,
         cell |-> [k \in index \X cols |-> GroupSize(df.rows, k[1], k[2])]]

\* groupby(["file_type","Discrepancy"]) raises KeyError for a missing column
GroupByFails(df) == ~({"file_type", "Discrepancy"} \subseteq df.columns)

(***************************************************************************)
(* Inputs                                                                  *)
(***************************************************************************)
MaxRepos == 2      \* repositories given to build_and_save
MaxCommits == 3    \* commits of a history
MaxFiles == 2      \* file changes of a history
MaxK == 2          \* value of --max-commits

p_a_py == <<"s","r","c","/","a",".","p","y">>
p_b_py == <<"s","r","c","/","b",".","p","y">>
p_t_py == <<"t","e","s","t","s","/","t",".","p","y">>
p_readme == <<"R","E","A","D","M","E",".","m","d">>
p_notes == <<"n","o","t","e","s",".","t","x","t">>

\* what the diff tool answers: a diff on exit status 0, a diagnostic otherwise
Ok(text) == [returncode |-> 0, stdout |-> text, stderr |-> ""]
Failed(text) == [returncode |-> 128, stdout |-> "", stderr |-> text]
Outcomes == {Ok("d1"), Ok("d2"), Failed("fatal")}

Change(old, new, om, oh) ==
    [old_path |-> old, new_path |-> new, git |-> [myers |-> om, histogram |-> oh]]

\* a file change without any path
Malformed == Change(None, None, Ok("d1"), Ok("d1"))

\* modified in place, added, deleted, renamed
PathPairs == {<<p_a_py, p_a_py>>, <<None, p_t_py>>, <<p_readme, None>>, <<p_notes, p_b_py>>}

\* every kind of path pair, the two algorithms agreeing or not
RecordChanges ==
    {Malformed} \cup {Change(pp[1], pp[2], Ok("d1"), oh) : pp \in PathPairs, oh \in {Ok("d1"), Ok("d2")}}

\* every pair of answers of the diff tool
DiffChanges ==
    {Malformed} \cup {Change(pp[1], pp[2], om, oh) :
                        pp \in {<<p_notes, p_b_py>>}, om \in Outcomes, oh \in Outcomes}

SeqsUpTo(S, n) == UNION {[1..k -> S] : k \in 0..n}

\* the parents a commit can have: none (a root), one older commit, or two
ParentChoices(i) ==
    {<<>>} \cup {<<Hash(j)>> : j \in 1..(i - 1)}
           \cup {<<Hash(jk[1]), Hash(jk[2])>> :
                   jk \in {x \in (1..(i - 1)) \X (1..(i - 1)) : x[1] # x[2]}}

Message == <<"f","i","x"," ","i","t","\n","\n","d","e","t","a","i","l","s","\n">>

Commit(i, ps, cl) == [hash |-> Hash(i), parents |-> ps, msg |-> Message, changes |-> cl]

\* the histories of exactly n commits, each with a list of changes of CL
RECURSIVE HistoriesOf(_, _)
HistoriesOf(n, CL) ==
    IF n = 0 THEN {<<>>}
    ELSE {Append(h, Commit(n, ps, cl)) :
            h \in HistoriesOf(n - 1, CL), ps \in ParentChoices(n), cl \in CL}

Repo(i, h) == [name |-> "repo" \o ToString(i), history |-> h]

ReposOf(hs) == [i \in DOMAIN hs |-> Repo(i, hs[i])]

\* the lists of changes of a commit in the walk and in the several-repository runs
WalkChangeLists ==
    {<<>>, <<Malformed>>, <<Malformed, Change(p_a_py, p_a_py, Ok("d1"), Ok("d2"))>>}

\* the positions of the commits reachable from position i or from one of R
RECURSIVE ReachFrom(_, _, _)
ReachFrom(h, i, R) ==
    IF i = 0 THEN R
    ELSE ReachFrom(h, i - 1,
             IF i \in R
             THEN R \cup {j \in 1..(i - 1) : \E k \in DOMAIN h[i].parents : h[i].parents[k] = Hash(j)}
             ELSE R)

\* every commit is an ancestor of the newest, which HEAD names
Connected(h) == ReachFrom(h, Len(h), {Len(h)}) = 1..Len(h)

\* any history of 1 to MaxCommits commits
WalkHistories ==
    {h \in UNION {HistoriesOf(n, WalkChangeLists) : n \in 1..MaxCommits} : Connected(h)}

\* a root commit and possibly a child of it, up to MaxFiles changes in all
RecordHistories(C) ==
    UNION {{<<Commit(1, <<>>, cl)>> : cl \in [1..k -> C]} : k \in 0..MaxFiles}
    \cup UNION {{<<Commit(1, <<>>, cl1), Commit(2, <<Hash(1)>>, cl2)>> :
                    cl1 \in [1..kk[1] -> C], cl2 \in [1..kk[2] -> C]} :
                 kk \in {x \in (0..MaxFiles) \X (0..MaxFiles) : x[1] + x[2] <= MaxFiles}}

\* histories of one or two commits, the second a child of the first
SmallHistories ==
    {<<Commit(1, <<>>, cl)>> : cl \in WalkChangeLists}
    \cup {<<Commit(1, <<>>, cl1), Commit(2, <<Hash(1)>>, cl2)>> :
                   cl1 \in WalkChangeLists, cl2 \in WalkChangeLists}

NoCommit == [hash |-> "", parents |-> <<>>, msg |-> <<>>, changes |-> <<>>]
NoFrame == [columns |-> {}, rows |-> <<>>]
NoStats == [index |-> {}, columns |-> {}, cell |-> <<>>]

InitLocals ==
    /\ url_i = 1 /\ all_dfs = <<>> /\ full = NoFrame /\ stats = NoStats /\ exc = "None"
    /\ rows = <<>> /\ seen = 0 /\ commits = <<>> /\ commit = NoCommit
    /\ parent_sha = "" /\ files = <<>> /\ walked = <<>> /\ calls = <<>>
    /\ old_path = None /\ new_path = None /\ ftype = ""

\* build_and_save on up to MaxRepos repositories of at most two commits each
Init ==
    /\ repo_urls \in {ReposOf(hs) : hs \in SeqsUpTo(SmallHistories, MaxRepos)}
    /\ max_commits \in 0..MaxK
    /\ include_merges \in BOOLEAN
    /\ pc = "main"
    /\ InitLocals

\* build_and_save on one repository of any history
InitWalk ==
    /\ repo_urls \in {ReposOf(hs) : hs \in SeqsUpTo(WalkHistories, 1)}
    /\ max_commits \in 0..MaxK
    /\ include_merges \in BOOLEAN
    /\ pc = "main"
    /\ InitLocals

\* build_and_save on one repository of one or two commits, any file changes
InitRecords ==
    /\ repo_urls \in {<<>>} \cup {ReposOf(<<h>>) : h \in RecordHistories(RecordChanges) \cup RecordHistories(DiffChanges)}
    /\ max_commits \in 0..1
    /\ include_merges = FALSE
    /\ pc = "main"
    /\ InitLocals

(***************************************************************************)
(* analyze_repo                                                            *)
(***************************************************************************)
\* line 147 calls analyze_repo (ensure_cloned has given the checkout);
\* lines 109-113: the locals and the commit generator
StartRepo ==
    /\ pc = "main"
    /\ url_i <= Len(repo_urls)
    /\ rows' = <<>>
    /\ seen' = 0
    /\ commits' = WalkOf(repo_urls[url_i].history, include_merges)
    /\ commit' = NoCommit
    /\ parent_sha' = ""
    /\ files' = <<>>
    /\ walked' = <<>>
    /\ calls' = <<>>
    /\ pc' = "for_commit"
    /\ UNCHANGED <<repo_urls, max_commits, include_merges, url_i, all_dfs, full, stats, exc,
                   old_path, new_path, ftype>>

\* mutant: the budget test off by one
BudgetSpent_OffByOne(k, n) == k # 0 /\ n > k

\* line 114: if max_commits and seen >= max_commits
BudgetSpent(k, n) == k # 0 /\ n >= k

\* line 138 and line 148: return pd.DataFrame(rows); all_dfs.append(df)
ReturnFrame ==
    /\ all_dfs' = Append(all_dfs, DataFrame(rows))
    /\ url_i' = url_i + 1
    /\ pc' = "main"

\* lines 112-117: the generator yields a commit within the budget
NextCommit ==
    /\ pc = "for_commit"
    /\ commits # <<>>
    /\ ~BudgetSpent(max_commits, seen)
    /\ commit' = Head(commits)
    /\ commits' = Tail(commits)
    /\ seen' = seen + 1
    /\ parent_sha' = ParentSha(Head(commits))
    /\ files' = modified_files(Head(commits))
    /\ walked' = Append(walked, Head(commits).hash)
    /\ pc' = "for_file"
    /\ UNCHANGED <<repo_urls, max_commits, include_merges, url_i, all_dfs, full, stats, exc,
                   rows, calls, old_path, new_path, ftype>>

\* lines 114-115: the generator yields a commit and the budget is spent: break
BreakWalk ==
    /\ pc = "for_commit"
    /\ commits # <<>>
    /\ BudgetSpent(max_commits, seen)
    /\ commit' = Head(commits)
    /\ commits' = Tail(commits)
    /\ ReturnFrame
    /\ UNCHANGED <<repo_urls, max_commits, include_merges, full, stats, exc,
                   rows, seen, parent_sha, files, walked, calls, old_path, new_path, ftype>>

\* line 112: the generator is exhausted
EndWalk ==
    /\ pc = "for_commit"
    /\ commits = <<>>
    /\ ReturnFrame
    /\ UNCHANGED <<repo_urls, max_commits, include_merges, full, stats, exc,
                   rows, seen, commits, commit, parent_sha, files, walked, calls,
                   old_path, new_path, ftype>>

\* lines 119-121: a modified file without any path is skipped
SkipFile ==
    /\ pc = "for_file"
    /\ files # <<>>
    /\ PathsOf(Head(files)) = {}
    /\ files' = Tail(files)
    /\ UNCHANGED <<repo_urls, max_commits, include_merges, url_i, all_dfs, full, stats, exc,
                   rows, seen, commits, commit, parent_sha, walked, calls,
                   old_path, new_path, ftype, pc>>

\* lines 119-137: two diffs, the verdict, the category, the row
RecordFile ==
    /\ pc = "for_file"
    /\ files # <<>>
    /\ PathsOf(Head(files)) # {}
    /\ rows' = Append(rows, RowOf(repo_urls[url_i].name, commit, parent_sha, Head(files)))
    /\ calls' = calls \o <<CallOf(commit, parent_sha, Head(files), "myers"),
                           CallOf(commit, parent_sha, Head(files), "histogram")>>
    /\ files' = Tail(files)
    /\ UNCHANGED <<repo_urls, max_commits, include_merges, url_i, all_dfs, full, stats, exc,
                   seen, commits, commit, parent_sha, walked, old_path, new_path, ftype, pc>>

\* line 118: the loop over the modified files ends
EndFiles ==
    /\ pc = "for_file"
    /\ files = <<>>
    /\ pc' = "for_commit"
    /\ UNCHANGED <<repo_urls, max_commits, include_merges, url_i, all_dfs, full, stats, exc,
                   rows, seen, commits, commit, parent_sha, files, walked, calls,
                   old_path, new_path, ftype>>

(***************************************************************************)
(* build_and_save, lines 149-156 (plots_dir is None)                       *)
(***************************************************************************)
\* Line 150 writes the dataset and line 156 the summary table to files no
\* later line reads; full and stats stand for what is written.
\* line 149: pd.concat raises ValueError for an empty list
ConcatFails(dfs) == dfs = <<>>

Aggregate ==
    /\ pc = "main"
    /\ url_i > Len(repo_urls)
    /\ \/ /\ ConcatFails(all_dfs)
          /\ exc' = "ValueError"
          /\ pc' = "raised"
          /\ UNCHANGED <<full, stats>>
       \/ /\ ~ConcatFails(all_dfs)
          /\ GroupByFails(Concat(all_dfs))
          /\ full' = Concat(all_dfs)
          /\ exc' = "KeyError"
          /\ pc' = "raised"
          /\ UNCHANGED stats
       \/ /\ ~ConcatFails(all_dfs)
          /\ ~GroupByFails(Concat(all_dfs))
          /\ full' = Concat(all_dfs)
          /\ stats' = Stats(Concat(all_dfs))
          /\ pc' = "done"
          /\ UNCHANGED exc
    /\ UNCHANGED <<repo_urls, max_commits, include_merges, url_i, all_dfs,
                   rows, seen, commits, commit, parent_sha, files, walked, calls,
                   old_path, new_path, ftype>>

Next ==
    \/ StartRepo
    \/ NextCommit
    \/ BreakWalk
    \/ EndWalk
    \/ SkipFile
    \/ RecordFile
    \/ EndFiles
    \/ Aggregate

Spec == Init /\ [][Next]_vars
SpecWalk == InitWalk /\ [][Next]_vars
SpecRecords == InitRecords /\ [][Next]_vars

(***************************************************************************)
(* classify_file on its own                                                *)
(***************************************************************************)
q_src_test_foo == <<"s","r","c","/","t","e","s","t","/","F","o","o",".","p","y">>
q_src_testutils_foo == <<"s","r","c","/","t","e","s","t","u","t","i","l","s","/","F","o","o",".","p","y">>
q_src_contest_foo == <<"s","r","c","/","c","o","n","t","e","s","t","/","F","o","o",".","p","y">>
q_test_foo == <<"t","e","s","t","_","f","o","o",".","p","y">>
q_testutils_test_foo == <<"s","r","c","/","t","e","s","t","u","t","i","l","s","/","t","e","s","t","_","f","o","o",".","p","y">>
q_tests_readme == <<"t","e","s","t","s","/","R","E","A","D","M","E",".","m","d">>
q_readme_test == <<"R","E","A","D","M","E","_","t","e","s","t",".","m","d">>
q_license == <<"L","I","C","E","N","S","E">>
q_licence == <<"d","o","c","s","/","L","I","C","E","N","C","E",".","t","x","t">>
q_conftest == <<"p","k","g","/","c","o","n","f","t","e","s","t",".","p","y">>
q_myconftest == <<"p","k","g","/","m","y","c","o","n","f","t","e","s","t",".","p","y">>
q_upper_tests == <<"T","e","s","t","s","/","F","o","o",".","j","a","v","a">>
q_test_py == <<"t","e","s","t",".","p","y">>
q_tests_py == <<"l","i","b","/","t","e","s","t","s",".","p","y">>
q_test1 == <<"t","e","s","t","1",".","p","y">>
q_test_dash == <<"t","e","s","t","-","d","a","t","a","/","x",".","c">>
q_notes == <<"n","o","t","e","s",".","t","x","t">>
q_makefile == <<"M","a","k","e","f","i","l","e">>
q_upper_ext == <<"s","r","c","/","M","a","i","n",".","P","Y">>
q_hidden == <<".","p","y">>
q_test_dir_txt == <<"t","e","s","t","/","d","a","t","a",".","t","x","t">>

\* the paths classify_file is called with: None, "", and paths of a repository
ClassifyPaths == {None, <<>>, p_a_py, p_readme,
    q_src_test_foo, q_src_testutils_foo, q_src_contest_foo, q_test_foo, q_testutils_test_foo,
    q_tests_readme, q_readme_test, q_license, q_licence, q_conftest,
    q_myconftest, q_upper_tests, q_test_py, q_tests_py, q_test1,
    q_test_dash, q_notes, q_makefile, q_upper_ext, q_hidden,
    q_test_dir_txt}

InitClassify ==
    /\ repo_urls = <<>> /\ max_commits = 0 /\ include_merges = FALSE
    /\ url_i = 1 /\ all_dfs = <<>> /\ full = NoFrame /\ stats = NoStats /\ exc = "None"
    /\ rows = <<>> /\ seen = 0 /\ commits = <<>> /\ commit = NoCommit
    /\ parent_sha = "" /\ files = <<>> /\ walked = <<>> /\ calls = <<>>
    /\ old_path \in ClassifyPaths
    /\ new_path \in ClassifyPaths
    /\ ftype = ""
    /\ pc = "classify"

\* lines 84-94
Classify ==
    /\ pc = "classify"
    /\ ftype' = classify_file(old_path, new_path)
    /\ pc' = "classified"
    /\ UNCHANGED <<repo_urls, max_commits, include_merges, url_i, all_dfs, full, stats, exc,
                   rows, seen, commits, commit, parent_sha, files, walked, calls,
                   old_path, new_path>>

NextClassify == Classify

SpecClassify == InitClassify /\ [][NextClassify]_vars

(***************************************************************************)
(* Properties                                                              *)
(***************************************************************************)
Categories == {"source", "test", "readme", "license", "other"}
Verdicts == {"Yes", "No"}

\* analyze_repo is running, or has returned and its locals are still in place
InWalk == pc \in {"for_commit", "for_file"}
Returned == pc \in {"main", "done", "raised"} /\ url_i > 1
Active == InWalk \/ Returned

\* the repository the locals of analyze_repo belong to
Analysed == IF InWalk THEN repo_urls[url_i] ELSE repo_urls[url_i - 1]

Present(path) == path # None /\ path # <<>>
WellFormed(m) == Present(m.old_path) \/ Present(m.new_path)

IsEligible(c) == include_merges \/ Len(c.parents) <= 1

\* the eligible commits of a history, oldest first
Eligible(h) == SelectSeq(h, IsEligible)

CommitOf(h, sha) == h[CHOOSE i \in DOMAIN h : h[i].hash = sha]

Min(a, b) == IF a < b THEN a ELSE b

RECURSIVE CountWellFormed(_)
CountWellFormed(ms) ==
    IF ms = <<>> THEN 0
    ELSE (IF WellFormed(Head(ms)) THEN 1 ELSE 0) + CountWellFormed(Tail(ms))

\* the file changes of the i-th walked commit that the inner loop has passed
ChangesPassed(i) ==
    LET c == CommitOf(Analysed.history, walked[i])
    IN  IF i = Len(walked) /\ pc = "for_file"
        THEN SubSeq(c.changes, 1, Len(c.changes) - Len(files))
        ELSE c.changes

\* the well-formed file changes passed so far, each with its commit, in walk order
RECURSIVE PassedFrom(_)
PassedFrom(i) ==
    IF i > Len(walked) THEN <<>>
    ELSE LET c == CommitOf(Analysed.history, walked[i])
             wf == SelectSeq(ChangesPassed(i), WellFormed)
         IN  [j \in DOMAIN wf |-> [c |-> c, m |-> wf[j]]] \o PassedFrom(i + 1)

Passed == PassedFrom(1)

\* C1 (as stated): the commits are processed oldest eligible commit first, so
\* the processed commits are always the oldest eligible ones in order.
C1_OldestFirst ==
    Active =>
        LET E == Eligible(Analysed.history)
        IN  /\ Len(walked) <= Len(E)
            /\ \A i \in DOMAIN walked : walked[i] = E[i].hash

\* C1 (amended): the commits are processed newest eligible commit first; when
\* max_commits = k cuts the walk short the k commits processed are the k newest.
C1_NewestFirst ==
    Active =>
        LET E == Eligible(Analysed.history)
        IN  /\ Len(walked) <= Len(E)
            /\ \A i \in DOMAIN walked : walked[i] = E[Len(E) + 1 - i].hash
            /\ (Returned /\ max_commits > 0 /\ max_commits < Len(E)) => Len(walked) = max_commits

C1_Witness ==
    /\ Returned
    /\ max_commits = 1
    /\ Len(Eligible(Analysed.history)) >= 2
    /\ walked = <<Analysed.history[Len(Analysed.history)].hash>>

\* C2: at most k commits are processed for k > 0, exactly k when there are at
\* least k eligible commits, every eligible commit when k = 0; a commit counts
\* whether or not it contributes records.
C2_MaxCommitsBound ==
    Active =>
        LET n == Len(Eligible(Analysed.history))
        IN  /\ seen = Len(walked)
            /\ seen <= n
            /\ max_commits > 0 => seen <= max_commits
            /\ Returned => seen = (IF max_commits > 0 THEN Min(max_commits, n) ELSE n)

C2_Witness ==
    /\ Returned
    /\ max_commits = 2
    /\ Len(Eligible(Analysed.history)) = 3
    /\ seen = 2
    /\ rows = <<>>

\* C3: a run over one or more repositories that produces no record completes without raising and its summary
\* table has no row.
C3_EmptyDatasetNotAnError ==
    (pc \in {"done", "raised"} /\ Len(repo_urls) >= 1 /\ ConcatRows(all_dfs) = <<>>) =>
        (pc = "done" /\ exc = "None" /\ stats.index = {})

RECURSIVE CountRecords(_, _, _)
CountRecords(rs, cat, verdict) ==
    IF rs = <<>> THEN 0
    ELSE (IF Head(rs).file_type = cat /\ Head(rs).Discrepancy = verdict THEN 1 ELSE 0)
         + CountRecords(Tail(rs), cat, verdict)

\* C4 (as stated): the summary table has a row for each of the five categories
\* and a column for each of the two verdicts, each cell the number of records.
C4_AllCategories ==
    pc = "done" =>
        /\ stats.index = Categories
        /\ stats.columns = Verdicts
        /\ \A k \in Categories \X Verdicts : stats.cell[k] = CountRecords(full.rows, k[1], k[2])

\* C4 (amended): the summary table of a non-empty record sequence has a row for
\* each category that occurs in the records and a column for each verdict that
\* occurs; each cell is the number of records of that category and verdict, 0
\* where there is none.
C4_OccurringCategories ==
    pc = "done" =>
        /\ full.rows = ConcatRows(all_dfs)
        /\ full.rows # <<>>
        /\ stats.index = {c \in Categories : \E i \in DOMAIN full.rows : full.rows[i].file_type = c}
        /\ stats.columns = {v \in Verdicts : \E i \in DOMAIN full.rows : full.rows[i].Discrepancy = v}
        /\ DOMAIN stats.cell = stats.index \X stats.columns
        /\ \A k \in stats.index \X stats.columns :
               stats.cell[k] = CountRecords(full.rows, k[1], k[2])

C4_Witness ==
    /\ pc = "done"
    /\ stats.index = {"source", "test"}
    /\ stats.columns = Verdicts
    /\ stats.cell[<<"source", "Yes">>] = 0
    /\ stats.cell[<<"test", "Yes">>] = 1

\* the path classify_file decides on: the new path if present, else the old one
DecidingPath == IF Present(new_path) THEN new_path ELSE IF Present(old_path) THEN old_path ELSE <<>>

Segments(path) == Split(Lower(path))
BaseName(path) == Segments(path)[Len(Segments(path))]

NamedReadme(path) == StartsWith(BaseName(path), s_readme)
NamedLicense(path) == StartsWith(BaseName(path), s_license) \/ StartsWith(BaseName(path), s_licence)

\* the test heuristic as the claim words it
ClaimedTest(path) ==
    \/ \E k \in DOMAIN Segments(path) :
          LET seg == Segments(path)[k]
          IN  \/ seg = s_test
              \/ seg = s_tests
              \/ StartsWith(seg, s_test) /\ Len(seg) > 4 /\ ~IsLetter(seg[5])
    \/ BaseName(path) = s_conftest_py

\* C5: a path not named readme or license is test exactly when a segment is
\* "test" or "tests", or a segment begins with "test" followed by a non-letter,
\* or the file is named conftest.py.
C5_TestHeuristic ==
    (pc = "classified" /\ ~NamedReadme(DecidingPath) /\ ~NamedLicense(DecidingPath)) =>
        (ftype = "test" <=> ClaimedTest(DecidingPath))

\* C6: classify_file returns one of the five categories, decided on the new path
\* if present else the old path, by the first rule that matches: readme name,
\* license name, test heuristic, source extension, other.
C6_TotalAndPrecedence ==
    pc = "classified" =>
        LET p == DecidingPath
        IN  /\ ftype \in Categories
            /\ NamedReadme(p) => ftype = "readme"
            /\ (~NamedReadme(p) /\ NamedLicense(p)) => ftype = "license"
            /\ (~NamedReadme(p) /\ ~NamedLicense(p) /\ is_test_file(p)) => ftype = "test"
            /\ (~NamedReadme(p) /\ ~NamedLicense(p) /\ ~is_test_file(p) /\ is_source_code(p))
                   => ftype = "source"
            /\ (~NamedReadme(p) /\ ~NamedLicense(p) /\ ~is_test_file(p) /\ ~is_source_code(p))
                   => ftype = "other"
            /\ p = q_tests_readme => ftype = "readme"
            /\ p = q_readme_test => ftype = "readme"
            /\ p = q_license => ftype = "license"
            /\ p = q_licence => ftype = "license"

C6_Witness ==
    /\ pc = "classified"
    /\ old_path = q_src_test_foo
    /\ new_path = q_tests_readme
    /\ ftype = "readme"

\* C7: without include_merges a commit of two or more parents is not walked and
\* yields no record; with include_merges it is walked and yields a record for
\* each of its modified files, diffed against its first parent.
C7_MergeExclusion ==
    Active =>
        LET h == Analysed.history
        IN  \A i \in DOMAIN h :
                Len(h[i].parents) >= 2 =>
                    LET mine == {j \in DOMAIN rows : rows[j].commit_sha = h[i].hash}
                    IN  /\ ~include_merges =>
                               /\ \A j \in DOMAIN walked : walked[j] # h[i].hash
                               /\ mine = {}
                        /\ (include_merges /\ Returned /\ \E j \in DOMAIN walked : walked[j] = h[i].hash) =>
                               /\ Cardinality(mine) = CountWellFormed(h[i].changes)
                               /\ \A j \in mine : rows[j].parent_commit_sha = h[i].parents[1]

\* C8: a file change without any path gives no record and no diff and stops
\* nothing; every other file change gives exactly one record, and every diff
\* is asked for one or two distinct paths.
C8_SkipMalformed ==
    Active =>
        /\ (InWalk \/ pc = "main") => exc = "None"
        /\ Len(rows) = Len(Passed)
        /\ \A i \in DOMAIN rows :
               /\ rows[i].commit_sha = Passed[i].c.hash
               /\ rows[i].old_file_path = (IF Present(Passed[i].m.old_path) THEN Passed[i].m.old_path ELSE <<>>)
               /\ rows[i].new_file_path = (IF Present(Passed[i].m.new_path) THEN Passed[i].m.new_path ELSE <<>>)
        /\ Len(calls) = 2 * Len(rows)
        /\ \A i \in DOMAIN calls :
               /\ Cardinality(calls[i].paths) \in {1, 2}
               /\ \A q \in calls[i].paths : Present(q)
        /\ (Returned /\ max_commits = 0) => Len(walked) = Len(Eligible(Analysed.history))

C8_Witness ==
    /\ Returned
    /\ Len(walked) = 2
    /\ Len(CommitOf(Analysed.history, walked[1]).changes) = 2
    /\ ~WellFormed(CommitOf(Analysed.history, walked[1]).changes[1])
    /\ Len(rows) = 1
    /\ rows[1].commit_sha = walked[1]
    /\ Cardinality(calls[1].paths) = 2

TextOf(cp) == IF cp.returncode = 0 THEN cp.stdout ELSE cp.stderr

\* C9: each stored diff text is the standard output of an invocation that
\* exited 0 and the diagnostic text of one that did not; the verdict is "No"
\* exactly when the two texts are equal, and swapping the texts keeps it.
C9_DiffTextAndVerdict ==
    Active =>
        /\ Len(rows) = Len(Passed)
        /\ \A i \in DOMAIN rows :
               /\ rows[i].diff_myers = TextOf(Passed[i].m.git.myers)
               /\ rows[i].diff_hist = TextOf(Passed[i].m.git.histogram)
               /\ rows[i].Discrepancy \in Verdicts
               /\ rows[i].Discrepancy = "No" <=> rows[i].diff_myers = rows[i].diff_hist
               /\ Discrepancy(rows[i].diff_hist, rows[i].diff_myers) = rows[i].Discrepancy

C9_Witness ==
    /\ Returned
    /\ Len(rows) = 2
    /\ Passed[1].m.git.myers.returncode # 0
    /\ Passed[1].m.git.histogram.returncode # 0
    /\ rows[1].Discrepancy = "No"
    /\ Passed[2].m.git.myers.returncode = 0
    /\ Passed[2].m.git.histogram.returncode # 0
    /\ rows[2].Discrepancy = "Yes"

\* C10: the parent reference of every record and of both diffs behind it is the
\* commit's first parent, or the empty-tree identifier for a commit without
\* parents, never an empty string; both diffs get the same parent, commit and paths.
C10_ParentSubstitution ==
    Active =>
        /\ pc = "for_file" =>
               /\ parent_sha # ""
               /\ parent_sha = (IF Len(commit.parents) >= 1 THEN commit.parents[1]
                                ELSE "4b825dc642cb6eb9a060e54bf8d69288fbee4904")
        /\ Len(calls) = 2 * Len(rows)
        /\ \A i \in DOMAIN rows :
               LET c == CommitOf(Analysed.history, rows[i].commit_sha)
                   first == calls[2 * i - 1]
                   second == calls[2 * i]
               IN  /\ rows[i].parent_commit_sha # ""
                   /\ rows[i].parent_commit_sha =
                          (IF Len(c.parents) >= 1 THEN c.parents[1]
                           ELSE "4b825dc642cb6eb9a060e54bf8d69288fbee4904")
                   /\ first.algorithm = "myers" /\ second.algorithm = "histogram"
                   /\ first.parent = rows[i].parent_commit_sha /\ second.parent = first.parent
                   /\ first.commit = rows[i].commit_sha /\ second.commit = first.commit
                   /\ first.paths = second.paths

C10_Witness ==
    /\ Returned
    /\ Len(rows) = 2
    /\ rows[1].parent_commit_sha = "c1"
    /\ rows[2].parent_commit_sha = "4b825dc642cb6eb9a060e54bf8d69288fbee4904"
    /\ Len(calls) = 4

====
